---- MODULE Spec2Model ----
(***************************************************************************)
(* Certification credit points agent (src/manual_definition.py): the tools *)
(* get_certification_points, check_certification_validity,                 *)
(* get_certificates, count_certificates, list_all_certificates and         *)
(* calculate_certificate_points, over the global badge store credly_data,  *)
(* the SQLite file DB_FILE and the wall clock.                             *)
(*                                                                         *)
(* Python values are modelled as follows.                                  *)
(*   str        a tagged record [t |-> "str", v |-> "<the characters>"]    *)
(*   None       [t |-> "None"]                                             *)
(*   int        [t |-> "int", v |-> n] where a str can stand in its place  *)
(*   JSON / dict  a record; d.get(k, default) is Get(d, k, default)        *)
(*   REAL points  an integer number of tenths of a point (5.0 is 50)       *)
(*   datetime   [ord |-> proleptic Gregorian ordinal, tick |-> time of     *)
(*              day in ticks; tick 0 is midnight]                          *)
(* Strings are handled character by character (Len, SubSeq, \o).           *)
(***************************************************************************)
EXTENDS Integers, Sequences, FiniteSets, TLC

VARIABLES credly_data, db, now, last

vars == <<credly_data, db, now, last>>

(***************************************************************************)
(* Bounds of the model.                                                    *)
(***************************************************************************)
MaxBadges == 2
TicksPerDay == 2
MaxRows == 2

(***************************************************************************)
(* Python values.                                                          *)
(***************************************************************************)
PyStr(s) == [t |-> "str", v |-> s]
PyNone == [t |-> "None"]
PyInt(n) == [t |-> "int", v |-> n]
Get(d, k, default) == IF k \in DOMAIN d THEN d[k] ELSE default

(***************************************************************************)
(* Characters and str methods.                                             *)
(***************************************************************************)
\* s[i-1:i]: the character at position i, "" outside the string
Char(s, i) == IF i >= 1 /\ i <= Len(s) THEN SubSeq(s, i, i) ELSE ""
CharsOf(s) == {Char(s, i) : i \in 1..Len(s)}
UpperCase == "ABCDEFGHIJKLMNOPQRSTUVWXYZ"
LowerCase == "abcdefghijklmnopqrstuvwxyz"
Digits == "0123456789"
WordChars == CharsOf(UpperCase) \cup CharsOf(LowerCase) \cup CharsOf(Digits) \cup {"_"}
SpaceChars == {" ", "\t", "\n", "\r", "\f"}
IsWord(c) == c \in WordChars
IsSpace(c) == c \in SpaceChars
IsDigit(c) == c \in CharsOf(Digits)

LowerChar(c) ==
    IF \E i \in 1..26 : Char(UpperCase, i) = c
    THEN Char(LowerCase, CHOOSE i \in 1..26 : Char(UpperCase, i) = c)
    ELSE c

RECURSIVE lower(_)
lower(s) == IF Len(s) = 0 THEN "" ELSE LowerChar(Char(s, 1)) \o lower(Tail(s))

\* p in s
Contains(s, p) ==
    \E i \in 1..(Len(s) - Len(p) + 1) : SubSeq(s, i, i + Len(p) - 1) = p

\* s[i:] starts with p
StartsAt(s, i, p) == i + Len(p) - 1 <= Len(s) /\ SubSeq(s, i, i + Len(p) - 1) = p

RECURSIVE replace(_, _, _)
replace(s, old, new) ==
    IF Len(s) = 0 THEN ""
    ELSE IF StartsAt(s, 1, old)
         THEN new \o replace(SubSeq(s, Len(old) + 1, Len(s)), old, new)
         ELSE Char(s, 1) \o replace(Tail(s), old, new)

\* first index >= i whose character is not in the class (Len(s)+1 if none)
RunEnd(s, i, class) ==
    IF \E k \in i..Len(s) : Char(s, k) \notin class
    THEN CHOOSE k \in i..Len(s) :
            Char(s, k) \notin class /\ \A j \in i..(k - 1) : Char(s, j) \in class
    ELSE Len(s) + 1

\* s.split(): the maximal runs of non-whitespace characters, in order
RECURSIVE split(_)
split(s) ==
    IF Len(s) = 0 THEN <<>>
    ELSE IF IsSpace(Char(s, 1)) THEN split(Tail(s))
    ELSE LET e == RunEnd(s, 1, CharsOf(s) \ SpaceChars)
         IN  <<SubSeq(s, 1, e - 1)>> \o split(SubSeq(s, e, Len(s)))

RECURSIVE ToInt(_)
ToInt(s) ==
    IF Len(s) = 0 THEN 0
    ELSE 10 * ToInt(SubSeq(s, 1, Len(s) - 1))
         + (CHOOSE i \in 1..10 : Char(Digits, i) = Char(s, Len(s))) - 1

(***************************************************************************)
(* datetime: the calendar, strptime(_, "%B %d, %Y") and the clock.         *)
(***************************************************************************)
MonthNames == <<"january", "february", "march", "april", "may", "june", "july",
                "august", "september", "october", "november", "december">>

IsLeap(y) == (y % 4 = 0) /\ ((y % 100 # 0) \/ (y % 400 = 0))

DaysInMonth(y, m) ==
    IF m = 2 THEN (IF IsLeap(y) THEN 29 ELSE 28)
    ELSE IF m \in {4, 6, 9, 11} THEN 30 ELSE 31

RECURSIVE DaysBeforeMonth(_, _)
DaysBeforeMonth(y, m) ==
    IF m = 1 THEN 0 ELSE DaysBeforeMonth(y, m - 1) + DaysInMonth(y, m - 1)

\* date(y, m, d).toordinal()
Ordinal(y, m, d) ==
    LET p == y - 1
    IN  p * 365 + (p \div 4) - (p \div 100) + (p \div 400) + DaysBeforeMonth(y, m) + d

Midnight(y, m, d) == [ord |-> Ordinal(y, m, d), tick |-> 0]

\* a < b on datetimes
Before(a, b) == a.ord < b.ord \/ (a.ord = b.ord /\ a.tick < b.tick)

\* (a - b).days: timedelta normalises to days + a non-negative remainder
DeltaDays(a, b) ==
    LET ticks == (a.ord - b.ord) * TicksPerDay + (a.tick - b.tick)
    IN  IF ticks >= 0 THEN ticks \div TicksPerDay
        ELSE -((-ticks + TicksPerDay - 1) \div TicksPerDay)

\* the %d directive: 3[0-1] | [1-2]\d | 0[1-9] | [1-9]
DayDirective(ds) ==
    \/ Len(ds) = 1 /\ ToInt(ds) >= 1
    \/ Len(ds) = 2 /\ ToInt(ds) >= 1 /\ ToInt(ds) <= 31

ValueError == [ok |-> FALSE]

\* datetime(y, m, d), a ValueError when the month has no such day
CheckedDate(y, m, d) ==
    IF d <= DaysInMonth(y, m) THEN [ok |-> TRUE, date |-> Midnight(y, m, d)]
    ELSE ValueError

\* %B (a full month name, in any case), %d and %Y (a year from 1 on)
MakeDate(word, ds, ys) ==
    IF /\ \E m \in 1..12 : MonthNames[m] = word
       /\ DayDirective(ds)
       /\ ToInt(ys) >= 1
    THEN CheckedDate(ToInt(ys), CHOOSE m \in 1..12 : MonthNames[m] = word, ToInt(ds))
    ELSE ValueError

\* the three fields of a text of the shape \w+\s+\d+,\s+\d{4}
DateFields(fields) ==
    MakeDate(lower(fields[1]), SubSeq(fields[2], 1, Len(fields[2]) - 1), fields[3])

\* datetime.strptime(g, "%B %d, %Y") for a g of the shape \w+\s+\d+,\s+\d{4}:
\* [ok |-> TRUE, date |-> datetime], or ValueError
strptime(g) == DateFields(split(g))

(***************************************************************************)
(* The regular expressions of check_certification_validity (re.search with *)
(* re.IGNORECASE): each returns [ok |-> TRUE, group |-> group(1)] for the  *)
(* leftmost match, or [ok |-> FALSE].                                      *)
(***************************************************************************)
NoMatch == [ok |-> FALSE]

\* the first result of a sequence that is ok
FirstOk(results) ==
    IF \E k \in 1..Len(results) : results[k].ok
    THEN results[CHOOSE k \in 1..Len(results) :
                    results[k].ok /\ \A j \in 1..(k - 1) : ~results[j].ok]
    ELSE NoMatch

\* (\w+\s+\d+,\s+\d{4}) matched at position j, class by class; every
\* quantifier is forced, because the classes that follow one another are
\* disjoint.  b, c, d and e are the ends of \w+, \s+, \d+ and of ",\s+"
YearAt(s, j, e) ==
    IF e + 3 <= Len(s) /\ \A k \in e..(e + 3) : IsDigit(Char(s, k))
    THEN [ok |-> TRUE, group |-> SubSeq(s, j, e + 3)]
    ELSE NoMatch

CommaAt(s, j, d) ==
    IF d + 1 <= Len(s) /\ Char(s, d) = "," /\ IsSpace(Char(s, d + 1))
    THEN YearAt(s, j, RunEnd(s, d + 1, SpaceChars))
    ELSE NoMatch

DayAt(s, j, c) ==
    IF c <= Len(s) /\ IsDigit(Char(s, c))
    THEN CommaAt(s, j, RunEnd(s, c, CharsOf(Digits)))
    ELSE NoMatch

GapAt(s, j, b) ==
    IF b <= Len(s) /\ IsSpace(Char(s, b))
    THEN DayAt(s, j, RunEnd(s, b, SpaceChars))
    ELSE NoMatch

DateGroupAt(s, j) ==
    IF j >= 1 /\ j <= Len(s) /\ IsWord(Char(s, j))
    THEN GapAt(s, j, RunEnd(s, j, WordChars))
    ELSE NoMatch

\* \s*(\w+\s+\d+,\s+\d{4}) at position p
GroupAfter(s, p) == DateGroupAt(s, RunEnd(s, p, SpaceChars))

\* where "s?:?" can end when "expire" starts at i, in the order the greedy
\* quantifiers try: "s:", "s", ":", nothing
ExpiresEnds(s, i) ==
    (IF lower(Char(s, i + 6)) = "s" /\ Char(s, i + 7) = ":" THEN <<i + 8>> ELSE <<>>)
    \o (IF lower(Char(s, i + 6)) = "s" THEN <<i + 7>> ELSE <<>>)
    \o (IF Char(s, i + 6) = ":" THEN <<i + 7>> ELSE <<>>)
    \o <<i + 6>>

\* expires?:?\s*(\w+\s+\d+,\s+\d{4}) at position i
ExpiresAt(s, i) ==
    IF i + 5 <= Len(s) /\ lower(SubSeq(s, i, i + 5)) = "expire"
    THEN FirstOk([k \in 1..Len(ExpiresEnds(s, i)) |-> GroupAfter(s, ExpiresEnds(s, i)[k])])
    ELSE NoMatch

\* date:?\s*(\w+\s+\d+,\s+\d{4}) at position k
DateLabelAt(s, k) ==
    IF k + 3 <= Len(s) /\ lower(SubSeq(s, k, k + 3)) = "date"
    THEN GroupAfter(s, IF Char(s, k + 4) = ":" THEN k + 5 ELSE k + 4)
    ELSE NoMatch

\* expir[y|ation]*\s*date:?\s*(\w+\s+\d+,\s+\d{4}) at position i
ExpiryDateAt(s, i) ==
    IF i + 4 <= Len(s) /\ lower(SubSeq(s, i, i + 4)) = "expir"
    THEN DateLabelAt(s, RunEnd(s, RunEnd(s, i + 5, CharsOf("y|ationY|ATION")),
                               SpaceChars))
    ELSE NoMatch

\* re.search(date_patterns[n], s, re.IGNORECASE)
date_patterns(n, s) ==
    CASE n = 1 -> FirstOk([i \in 1..Len(s) |-> ExpiresAt(s, i)])
      [] n = 2 -> FirstOk([i \in 1..Len(s) |-> ExpiryDateAt(s, i)])
      [] n = 3 -> FirstOk([i \in 1..Len(s) |-> DateGroupAt(s, i)])

\* the body of the loop: strptime on the group of a match
ParseMatch(date_match) ==
    IF date_match.ok THEN strptime(date_match.group) ELSE ValueError

\* the loop over date_patterns: the first pattern that matches and whose
\* group strptime accepts decides expiry_date; [ok |-> FALSE] is None
ParseExpiry(s) == FirstOk([n \in 1..3 |-> ParseMatch(date_patterns(n, s))])

NoExpirationPhrases == {"no expiration", "does not expire"}

ValidityError ==
    [error |-> "Error checking validity", is_valid |-> FALSE, message |-> "Error"]

\* the branch `if expiry_date:` and the return that follows it
DatedValidity(expiry_date, current) ==
    IF expiry_date.ok
    THEN [is_valid |-> Before(current, expiry_date.date),
          expiry_date |-> expiry_date.date.ord,
          days_remaining |-> IF Before(current, expiry_date.date)
                             THEN PyInt(DeltaDays(expiry_date.date, current))
                             ELSE PyInt(0),
          message |-> IF Before(current, expiry_date.date) THEN "Valid" ELSE "Expired"]
    ELSE [is_valid |-> FALSE, message |-> "Expired - Could not parse date",
          days_remaining |-> PyInt(0)]

\* check_certification_validity(expiry_date_str) with datetime.now() = current
check_certification_validity(expiry_date_str, current) ==
    IF expiry_date_str.t # "str" THEN ValidityError
    ELSE IF \E p \in NoExpirationPhrases : Contains(lower(expiry_date_str.v), p)
    THEN [is_valid |-> TRUE, message |-> "Valid - Does not expire",
          days_remaining |-> PyStr("N/A")]
    ELSE DatedValidity(ParseExpiry(expiry_date_str.v), current)

(***************************************************************************)
(* The database DB_FILE.  setup_certifications_database creates the table  *)
(* certifications_data(cert_name, points) and inserts `certifications`.    *)
(* A database file is                                                      *)
(*   [file |-> "missing"]    no file at DB_FILE                            *)
(*   [file |-> "no_table"]   a file without a usable certifications_data   *)
(*   [file |-> "ok", rows |-> the rows of the table, in insertion order]   *)
(***************************************************************************)
certifications ==
    << [cert_name |-> "HashiCorp Certified: Terraform Associate", points |-> 50],
       [cert_name |-> "AWS Certified AI Practitioner", points |-> 25],
       [cert_name |-> "AWS Certified Solutions Architect - Professional", points |-> 100],
       [cert_name |-> "AWS Certified Solutions Architect - Associate", points |-> 50],
       [cert_name |-> "AWS Certified Developer - Associate", points |-> 50],
       [cert_name |-> "AWS Certified SysOps Administrator - Associate", points |-> 50],
       [cert_name |-> "AWS Certified DevOps Engineer - Professional", points |-> 100],
       [cert_name |-> "AWS Solution Architect Professional", points |-> 100],
       [cert_name |-> "Google Cloud Professional Cloud Architect", points |-> 80],
       [cert_name |-> "Microsoft Certified: Azure Fundamentals", points |-> 50],
       [cert_name |-> "Microsoft Certified: Azure Solutions Architect Expert", points |-> 80],
       [cert_name |-> "Certified Kubernetes Administrator (CKA)", points |-> 70],
       [cert_name |-> "CompTIA Security+", points |-> 45],
       [cert_name |-> "Certified Information Systems Security Professional (CISSP)",
        points |-> 90] >>

MissingDb == [file |-> "missing"]
NoTableDb == [file |-> "no_table"]
TableDb(rows) == [file |-> "ok", rows |-> rows]

\* sqlite3.connect(DB_FILE) creates an empty file when there is none
connect(database) == IF database.file = "missing" THEN NoTableDb ELSE database

\* SELECT cert_name, points FROM certifications_data ORDER BY points DESC:
\* every order of the rows with non-increasing points (SQL leaves the order
\* of rows with equal points open)
OrderByPointsDesc(rows) ==
    LET n == Len(rows)
        perms == {f \in [1..n -> 1..n] : \A i, j \in 1..n : i # j => f[i] # f[j]}
    IN  { [i \in 1..n |-> rows[f[i]]] :
            f \in {g \in perms : \A i \in 1..(n - 1) :
                                    rows[g[i]].points >= rows[g[i + 1]].points} }

\* the words of a category name kept as keywords
Keywords(category_name) ==
    SelectSeq(split(replace(replace(lower(category_name), " or ", " "), " and ", " ")),
              LAMBDA word : Len(word) > 2)

CategoryMatches(category_name, cert_name_lower) ==
    \E k \in 1..Len(Keywords(category_name)) :
        Contains(cert_name_lower, Keywords(category_name)[k])

PointsJson(row, cert_name) ==
    [category |-> row.cert_name, points |-> row.points, cert_name |-> cert_name]

\* the loop of get_certification_points over categories, then its default
LookupInOrder(categories, cert_name) ==
    LET hits == {i \in 1..Len(categories) :
                    CategoryMatches(categories[i].cert_name, lower(cert_name.v))}
    IN  IF hits # {}
        THEN PointsJson(categories[CHOOSE i \in hits : \A j \in hits : i <= j], cert_name)
        ELSE IF Len(categories) > 0
        THEN PointsJson(categories[Len(categories)], cert_name)
        ELSE [error |-> "No categories found in database"]

DatabaseError == [error |-> "Database error"]

\* get_certification_points(cert_name) against the database file: the set of
\* JSON documents it can return
get_certification_points(database, cert_name) ==
    IF database.file # "ok" \/ cert_name.t # "str" THEN {DatabaseError}
    ELSE {LookupInOrder(cats, cert_name) : cats \in OrderByPointsDesc(database.rows)}

(***************************************************************************)
(* Inputs of the model.                                                    *)
(***************************************************************************)
NowDays == {<<2025, 1, 1>>, <<2025, 12, 31>>, <<2026, 1, 1>>}
Instants == {[ord |-> Ordinal(d[1], d[2], d[3]), tick |-> k] :
                d \in NowDays, k \in 0..(TicksPerDay - 1)}
\* the clock never runs backwards
Later(t) == {u \in Instants : ~Before(u, t)}

ExpiryTexts ==
    { PyStr("No Expiration Date"), PyStr("This badge does not expire"), PyStr(""),
      PyStr("None"), PyStr("Not specified"), PyStr("No expiry"),
      PyStr("Expires: January 15, 2023"), PyStr("Expires: December 31, 2025"),
      PyStr("Expiration Date: January 2, 2025"), PyStr("expires december 31, 2025"),
      PyStr("Issued January 5, 2020 Expiry Date: December 31, 2025"),
      PyStr("Valid until January 2, 2025 at the latest"),
      PyStr("February 30, 2025"), PyStr("Dec 31, 2025"), PyStr("12/31/2025"),
      PyStr("2025-12-31"), PyStr("sometime next year"), PyNone,
      PyStr("Jun 30, 2026"), PyStr("06/30/2026"), PyStr("2026-06-30"),
      PyStr("Expires: June 30, 2026") }

CertNames ==
    { PyStr("AWS Certified Solutions Architect - Associate"),
      PyStr("aws certified ai practitioner"),
      PyStr("AWS Solution Architect Professional"),
      PyStr("CompTIA Security+"),
      PyStr("Completely Unknown Cert XYZ"),
      PyNone }

\* the rows of `certifications` that tables are drawn from
RowPool == {2, 3, 4, 13}

RECURSIVE Ascending(_)
Ascending(S) ==
    IF S = {} THEN <<>>
    ELSE LET m == CHOOSE x \in S : \A y \in S : x <= y
         IN  <<m>> \o Ascending(S \ {m})

\* tables of one to MaxRows of the pooled rows, in the order of insertion
Tables ==
    { [i \in 1..Cardinality(S) |-> certifications[Ascending(S)[i]]] :
        S \in {T \in SUBSET RowPool : Cardinality(T) \in 1..MaxRows} }

Databases == {MissingDb, NoTableDb} \cup {TableDb(rows) : rows \in Tables}

\* the badge_info get_certificates builds from one record of the response;
\* [ok |-> FALSE] when building it raises (a record that is no object, or
\* whose badge_template or issuer is not an object)
badge_info(badge) ==
    IF Get(badge, "badge_template", [name |-> PyStr("Unknown")]) = PyNone
    THEN [ok |-> FALSE]
    ELSE [ok |-> TRUE,
          info |-> [title |-> Get(Get(badge, "badge_template", <<>>), "name", PyStr("Unknown")),
                    expiry_date |-> Get(badge, "expires_at_date",
                                        PyStr("No Expiration Date"))]]

\* the records of a profile's badges.json
BadgeRecords ==
    { [badge_template |-> [name |-> PyStr("AWS Certified Solutions Architect - Associate")],
       expires_at_date |-> PyStr("2025-12-31")],
      [badge_template |-> [name |-> PyStr("AWS Certified AI Practitioner")],
       expires_at_date |-> PyNone],
      [badge_template |-> [name |-> PyStr("AWS Certified Solutions Architect - Professional")],
       expires_at_date |-> PyStr("Expires: December 31, 2025")],
      [badge_template |-> [name |-> PyStr("Completely Unknown Cert XYZ")]],
      [badge_template |-> PyNone] }

RECURSIVE SeqsUpTo(_, _)
SeqsUpTo(S, n) ==
    IF n = 0 THEN {<<>>}
    ELSE SeqsUpTo(S, n - 1) \cup {Append(q, x) : q \in SeqsUpTo(S, n - 1), x \in S}

Responses ==
    {[kind |-> "request_exception"], [kind |-> "not_json"],
     [kind |-> "json", body |-> [errors |-> "not found"]]}
    \cup {[kind |-> "json", body |-> [data |-> records]] :
            records \in SeqsUpTo(BadgeRecords, MaxBadges)}

\* the databases the badge store is run against
StoreDatabases ==
    {MissingDb, NoTableDb, TableDb(<<>>),
     TableDb(SubSeq(certifications, 2, 4)),
     TableDb(<<certifications[1], certifications[4]>>)}

(***************************************************************************)
(* The two pure tools are evaluated once per input and kept in tables.     *)
(***************************************************************************)
StoredExpiries ==
    {Get(badge_info(r).info, "expiry_date", PyNone) : r \in {x \in BadgeRecords : badge_info(x).ok}}
StoredTitles ==
    {Get(badge_info(r).info, "title", PyNone) : r \in {x \in BadgeRecords : badge_info(x).ok}}

ValidityTable ==
    [e \in ExpiryTexts \cup StoredExpiries, t \in Instants |->
        check_certification_validity(e, t)]

PointsTable ==
    [d \in Databases \cup StoreDatabases, n \in CertNames \cup StoredTitles |->
        get_certification_points(d, n)]

Validity(expiry_date_str, current) ==
    IF <<expiry_date_str, current>> \in DOMAIN ValidityTable
    THEN ValidityTable[expiry_date_str, current]
    ELSE check_certification_validity(expiry_date_str, current)

Points(database, cert_name) ==
    IF <<database, cert_name>> \in DOMAIN PointsTable
    THEN PointsTable[database, cert_name]
    ELSE get_certification_points(database, cert_name)

(***************************************************************************)
(* The badge store and the tools that work on it.  A stored badge_info is  *)
(* [title, expiry_date]; its issuer, issued_date, image_url and badge_url  *)
(* are only ever printed and are left out.                                 *)
(***************************************************************************)

\* the status shown for an item by calculate_certificate_points
StatusOf(validity_data) ==
    IF Get(validity_data, "is_valid", FALSE) THEN "Valid" ELSE "Expired"

\* ItemPoints without the test of is_valid
ItemPointsUnconditional(points_data, validity_data) ==
    Get(points_data, "points", 0)

\* points = points_data.get('points', 0) if validity_data.get('is_valid', False) else 0
ItemPoints(points_data, validity_data) ==
    IF Get(validity_data, "is_valid", FALSE) THEN Get(points_data, "points", 0) ELSE 0

\* one iteration of the loop of calculate_certificate_points: the set of
\* point_details entries the badge can get
BadgeDetails(badge, database, current) ==
    LET cert_name == Get(badge, "title", PyStr("Unknown"))
        expiry_date == Get(badge, "expiry_date", PyStr("No Expiration Date"))
        validity_data == Validity(expiry_date, current)
    IN  { [cert_name |-> cert_name,
           points |-> ItemPoints(points_data, validity_data),
           status |-> StatusOf(validity_data)] :
          points_data \in Points(database, cert_name) }

RECURSIVE SumPoints(_)
SumPoints(details) ==
    IF details = <<>> THEN 0 ELSE Head(details).points + SumPoints(Tail(details))

\* the badges the loop of calculate_certificate_points visits, in order
LoopBadges(data) == data.badges

\* calculate_certificate_points(): the set of values it can return
calculate_certificate_points(data, database, current) ==
    IF data.count = 0 THEN {[kind |-> "none_loaded"]}
    ELSE LET badges == LoopBadges(data)
             n == Len(badges)
             choices == {d \in [1..n -> UNION {BadgeDetails(badges[i], database, current) :
                                                 i \in 1..n}] :
                            \A i \in 1..n : d[i] \in BadgeDetails(badges[i], database, current)}
         IN  { [kind |-> "total", total_points |-> SumPoints(d), point_details |-> d] :
               d \in choices }

\* the store after get_certificates has run on a response
StoreAfter(data, response) ==
    IF response.kind # "json" THEN data
    ELSE LET records == Get(response.body, "data", <<>>)
             bad == {i \in 1..Len(records) : ~badge_info(records[i]).ok}
             upto == IF bad = {} THEN Len(records)
                     ELSE (CHOOSE i \in bad : \A j \in bad : i <= j) - 1
             badges == [i \in 1..upto |-> badge_info(records[i]).info]
         IN  [badges |-> badges,
              count |-> IF bad = {} THEN Len(badges) ELSE data.count]

\* the string get_certificates returns
CertificatesResult(data, response) ==
    IF response.kind = "request_exception" THEN [text |-> "Error fetching data"]
    ELSE IF response.kind = "not_json" THEN [text |-> "Error parsing data"]
    ELSE IF \E i \in 1..Len(Get(response.body, "data", <<>>)) :
                ~badge_info(Get(response.body, "data", <<>>)[i]).ok
    THEN [text |-> "Error parsing data"]
    ELSE [text |-> "Found certificates", count |-> StoreAfter(data, response).count]

\* count_certificates()
count_certificates_result(data) ==
    IF data.count = 0 THEN [text |-> "No certificates are currently loaded in memory"]
    ELSE [text |-> "You have certificates", count |-> data.count]

\* list_all_certificates()
list_all_certificates_result(data) ==
    IF data.count = 0 THEN [text |-> "No certificates loaded"]
    ELSE [text |-> "list",
          lines |-> [i \in 1..Len(data.badges) |->
                        [title |-> Get(data.badges[i], "title", PyStr("Unknown")),
                         expiry |-> Get(data.badges[i], "expiry_date",
                                        PyStr("No Expiration Date"))]]]

(***************************************************************************)
(* The state machine.  `last` is the latest tool call and what it          *)
(* returned; `now` is the latest reading of datetime.now() (at first, the  *)
(* time the program starts).  The readings of the clock within one call    *)
(* agree: a call is far shorter than a tick.                               *)
(***************************************************************************)
TypeOK ==
    /\ credly_data.count \in 0..MaxBadges
    /\ Len(credly_data.badges) <= MaxBadges
    /\ now \in Instants

InitCommon ==
    /\ credly_data = [badges |-> <<>>, count |-> 0]
    /\ now \in Instants
    /\ last = [tool |-> "none"]

Init == InitCommon /\ db \in StoreDatabases

get_certificates ==
    \E response \in Responses :
        /\ credly_data' = StoreAfter(credly_data, response)
        /\ last' = [tool |-> "get_certificates",
                    ret |-> CertificatesResult(credly_data, response)]
        /\ UNCHANGED <<db, now>>

count_certificates ==
    /\ last' = [tool |-> "count_certificates",
                ret |-> count_certificates_result(credly_data)]
    /\ UNCHANGED <<credly_data, db, now>>

list_all_certificates ==
    /\ last' = [tool |-> "list_all_certificates",
                ret |-> list_all_certificates_result(credly_data)]
    /\ UNCHANGED <<credly_data, db, now>>

\* a calculate_certificate_points that empties the store it has summed
StoreConsumedByCalculate(data) == [badges |-> <<>>, count |-> 0]

\* what calculate_certificate_points leaves in the store and the database:
\* it writes to neither, but each get_certification_points connects
StoreAfterCalculate(data) == data
DbAfterCalculate(data, database) ==
    IF data.count # 0 /\ Len(data.badges) > 0 THEN connect(database) ELSE database

\* the clock is read when a badge with a parsed expiry date is checked
ReadsClock(data, t) ==
    /\ data.count # 0
    /\ \E i \in 1..Len(data.badges) :
          "expiry_date" \in DOMAIN Validity(Get(data.badges[i], "expiry_date",
                                                 PyStr("No Expiration Date")), t)

CalculatePoints ==
    \E t \in Later(now) :
        \E ret \in calculate_certificate_points(credly_data, db, t) :
            /\ now' = IF ReadsClock(credly_data, t) THEN t ELSE now
            /\ last' = [tool |-> "calculate_certificate_points", ret |-> ret]
            /\ credly_data' = StoreAfterCalculate(credly_data)
            /\ db' = DbAfterCalculate(credly_data, db)

Next ==
    \/ get_certificates
    \/ count_certificates
    \/ list_all_certificates
    \/ CalculatePoints

Spec == Init /\ [][Next]_vars

(***************************************************************************)
(* The tools get_certification_points and check_certification_validity     *)
(* called on their own.                                                    *)
(***************************************************************************)
InitPoints == InitCommon /\ db \in Databases

GetPoints ==
    \E cert_name \in CertNames :
        \E ret \in Points(db, cert_name) :
            /\ last' = [tool |-> "get_certification_points", arg |-> cert_name, ret |-> ret]
            /\ db' = connect(db)
            /\ UNCHANGED <<credly_data, now>>

NextPoints == GetPoints

SpecPoints == InitPoints /\ [][NextPoints]_vars

InitValidity == InitCommon /\ db = NoTableDb

\* the clock is read only once the text is known to name no "no expiration"
\* phrase and a date has been parsed
CheckValidity ==
    \E expiry_date_str \in ExpiryTexts, t \in Later(now) :
        /\ now' = IF "expiry_date" \in DOMAIN Validity(expiry_date_str, t) THEN t ELSE now
        /\ last' = [tool |-> "check_certification_validity", arg |-> expiry_date_str,
                    ret |-> Validity(expiry_date_str, t)]
        /\ UNCHANGED <<credly_data, db>>

NextValidity == CheckValidity

SpecValidity == InitValidity /\ [][NextValidity]_vars

(***************************************************************************)
(* Properties of check_certification_validity (under SpecValidity).       *)
(***************************************************************************)
Checked == last.tool = "check_certification_validity"
Dated == Checked /\ "expiry_date" \in DOMAIN last.ret

\* the phrases that stand for "no expiration"
NoExpiryPhrases ==
    {"no expiration", "does not expire", "not specified", "none", "no expiry"}

\* an expiry text that is absent, empty or contains a "no expiration" phrase
NeverExpires(e) ==
    \/ e.t # "str"
    \/ e.v = ""
    \/ \E p \in NoExpiryPhrases : Contains(lower(e.v), p)

\* Valid, with no parsed date and no days remaining
ValidForever(ret) ==
    /\ Get(ret, "is_valid", FALSE)
    /\ "expiry_date" \notin DOMAIN ret
    /\ Get(ret, "days_remaining", PyStr("N/A")) = PyStr("N/A")

\* C3: for every expiry text that is absent, empty or contains (in any case)
\* one of the phrases "no expiration", "does not expire", "not specified",
\* "none", "no expiry", the validity check returns Valid with no parsed date
\* and no days remaining.
C3_NoExpirationIsValid ==
    (Checked /\ NeverExpires(last.arg)) => ValidForever(last.ret)

\* C4: when an expiry date is parsed, the verdict is decided by comparing the
\* dates alone: Valid whenever the parsed date is the day of now or later (at
\* any time of that day), Expired exactly when it is an earlier day.
C4_DateOnlyComparison ==
    Dated => (last.ret.is_valid <=> last.ret.expiry_date >= now.ord)

\* C5: for a Valid verdict with a parsed date, days_remaining is the number of
\* calendar days from the day of now to the parsed date, whatever the time of
\* day of now (364 from 2025-01-01 to December 31, 2025), and it is never
\* negative; for an Expired verdict it is 0.
C5_CalendarDaysRemaining ==
    Dated =>
        /\ last.ret.days_remaining.t = "int"
        /\ last.ret.days_remaining.v >= 0
        /\ last.ret.is_valid => last.ret.days_remaining.v = last.ret.expiry_date - now.ord
        /\ ~last.ret.is_valid => last.ret.days_remaining.v = 0

(***************************************************************************)
(* Properties of get_certification_points (under SpecPoints).             *)
(***************************************************************************)
Resolved == last.tool = "get_certification_points" /\ last.arg.t = "str"

\* the rows of the table whose name equals the query, case aside
SameName(database, cert_name) ==
    {i \in 1..Len(database.rows) : lower(database.rows[i].cert_name) = lower(cert_name.v)}

\* C6: for every catalog and every query equal (case aside) to the name of a
\* catalog entry, point resolution returns that very entry and exactly its
\* stored points, not another entry that shares a word with the query and not
\* a fallback value.
C6_ExactNameResolves ==
    (Resolved /\ db.file = "ok" /\ SameName(db, last.arg) # {}) =>
        \E i \in SameName(db, last.arg) :
            /\ Get(last.ret, "category", "") = db.rows[i].cert_name
            /\ Get(last.ret, "points", -1) = db.rows[i].points

\* the level keywords of the estimate
LevelKeywords ==
    {"foundational", "fundamental", "practitioner", "essentials", "associate",
     "developer", "administrator", "professional", "expert", "architect", "engineer",
     "specialty", "specialist", "advanced"}

\* a query that matches no row of the table and contains no level keyword
Unknown(database, cert_name) ==
    /\ \A i \in 1..Len(database.rows) :
          ~CategoryMatches(database.rows[i].cert_name, lower(cert_name.v))
    /\ \A k \in LevelKeywords : ~Contains(lower(cert_name.v), k)

\* C7: for a query that matches no catalog entry and contains no level
\* keyword ("Completely Unknown Cert XYZ"), against any catalog that loads,
\* point resolution reports no match and returns the default estimate of 5
\* points, whatever the points stored in the catalog.
C7_UnknownGetsDefaultFive ==
    (Resolved /\ db.file = "ok" /\ Unknown(db, last.arg)) =>
        /\ "category" \notin DOMAIN last.ret
        /\ Get(last.ret, "points", -1) = 50

(***************************************************************************)
(* Properties of calculate_certificate_points and the badge store (under   *)
(* Spec).                                                                  *)
(***************************************************************************)
Calculated == last.tool = "calculate_certificate_points"
Aggregated == Calculated /\ last.ret.kind = "total"

TitleOf(badge) == Get(badge, "title", PyStr("Unknown"))
ExpiryOf(badge) == Get(badge, "expiry_date", PyStr("No Expiration Date"))

\* the points the catalog resolves for a badge
ResolvedPoints(badge) == {Get(p, "points", 0) : p \in Points(db, TitleOf(badge))}

\* the verdict of check_certification_validity on a badge is not valid
ExpiredItem(badge) == ~Get(Validity(ExpiryOf(badge), now), "is_valid", FALSE)

\* the expiry date of a badge was parsed and lies before today
PastItem(badge) ==
    /\ "expiry_date" \in DOMAIN Validity(ExpiryOf(badge), now)
    /\ Validity(ExpiryOf(badge), now).expiry_date < now.ord

\* the sum of the points of the entries whose badge is not expired
RECURSIVE SumOfValid(_, _)
SumOfValid(details, badges) ==
    IF details = <<>> \/ badges = <<>> THEN 0
    ELSE (IF ExpiredItem(Head(badges)) THEN 0 ELSE Head(details).points)
         + SumOfValid(Tail(details), Tail(badges))

\* C1: in every aggregation each item whose validity verdict is expired
\* contributes 0 to the total, whatever points the catalog resolves for it,
\* and the total is the sum of the resolved points of the other items only.
C1_ExpiredContributeZero ==
    Aggregated =>
        LET d == last.ret.point_details
            b == credly_data.badges
        IN  /\ Len(d) = Len(b)
            /\ \A i \in 1..Len(b) :
                  IF ExpiredItem(b[i]) THEN d[i].points = 0
                  ELSE d[i].points \in ResolvedPoints(b[i])
            /\ last.ret.total_points = SumOfValid(d, b)

\* an aggregation over an item whose date has passed and whose resolved
\* points are not 0, next to a valid item that counts
C1_ExpiredBesideValid ==
    /\ Aggregated
    /\ Len(last.ret.point_details) = Len(credly_data.badges)
    /\ \E i, j \in 1..Len(credly_data.badges) :
          /\ PastItem(credly_data.badges[i])
          /\ \E p \in ResolvedPoints(credly_data.badges[i]) : p > 0
          /\ last.ret.point_details[i].points = 0
          /\ ~ExpiredItem(credly_data.badges[j])
          /\ last.ret.point_details[j].points > 0
          /\ last.ret.total_points = last.ret.point_details[j].points

\* an expiry value that is absent or that no date can be read from, and
\* that names no "no expiration" phrase
IndeterminateItem(badge) ==
    /\ "expiry_date" \notin DOMAIN Validity(ExpiryOf(badge), now)
    /\ \/ ExpiryOf(badge).t # "str"
       \/ \A p \in NoExpirationPhrases : ~Contains(lower(ExpiryOf(badge).v), p)

\* C2: an item whose expiry text is unparseable or absent is treated as
\* valid by the aggregation: it contributes its full resolved points to the
\* total, never 0.
C2_IndeterminateCountsInFull ==
    (Aggregated /\ Len(last.ret.point_details) = Len(credly_data.badges)) =>
        \A i \in 1..Len(credly_data.badges) :
            IndeterminateItem(credly_data.badges[i]) =>
                last.ret.point_details[i].points \in ResolvedPoints(credly_data.badges[i])

\* C8: a failed catalog load (database missing, table missing) surfaces to
\* the caller of aggregation as an explicit failure; the aggregation never
\* turns it into a normal-looking result whose items got 0 points.
C8_CatalogFailureSurfaces ==
    (Calculated /\ db.file # "ok" /\ credly_data.count # 0 /\ credly_data.badges # <<>>) =>
        last.ret.kind \notin {"total", "none_loaded"}

\* C9: an aggregation over the n loaded items always completes with a
\* breakdown of exactly n entries in the order of the input, one per item;
\* an error in one item's expiry value (a null value included) stays in that
\* item's verdict and changes no other item's entry.
C9_OneEntryPerLoadedItem ==
    Calculated =>
        LET b == credly_data.badges
            d == IF last.ret.kind = "total" THEN last.ret.point_details ELSE <<>>
        IN  /\ Len(d) = Len(b)
            /\ \A i \in 1..Len(b) :
                  /\ d[i].cert_name = TitleOf(b[i])
                  /\ d[i] \in BadgeDetails(b[i], db, now)

\* the catalog a database holds
CatalogOf(database) ==
    [loads |-> database.file = "ok",
     rows |-> IF database.file = "ok" THEN database.rows ELSE <<>>]

\* C10: the aggregation is idempotent and free of side effects: a call of
\* calculate_certificate_points leaves the store (badges and count) and the
\* catalog as they were, and a second call on the same store, catalog and
\* clock reading returns what the first returned.
C10_AggregationIdempotent ==
    [][(last'.tool = "calculate_certificate_points") =>
          /\ credly_data' = credly_data
          /\ CatalogOf(db') = CatalogOf(db)
          /\ (Calculated /\ now' = now) => last'.ret = last.ret]_vars

\* an aggregation has returned a breakdown of a loaded store that counts
\* points, and can be called again
C10_AggregatedLoadedStore ==
    /\ Aggregated
    /\ credly_data.count = Len(credly_data.badges)
    /\ Len(last.ret.point_details) > 1
    /\ last.ret.total_points > 0

(***************************************************************************)
(* The date formats an expiry text may carry: a labelled or bare           *)
(* month-name date with a full or abbreviated month, MM/DD/YYYY and        *)
(* YYYY-MM-DD (checked under SpecValidity).                                *)
(***************************************************************************)
AllDigits(s) == \A i \in 1..Len(s) : Char(s, i) \in CharsOf(Digits)

\* a month by its full name or by its first three letters
MonthsNamed(word) ==
    {m \in 1..12 : MonthNames[m] = word \/ SubSeq(MonthNames[m], 1, 3) = word}

\* the date of y, m, d when there is such a day
DateOfNumbers(y, m, d) ==
    IF y >= 1 /\ m \in 1..12 /\ d >= 1 THEN CheckedDate(y, m, d) ELSE ValueError

\* the date a group "Month D, YYYY" names
MonthNameDate(match) ==
    IF ~match.ok THEN ValueError
    ELSE LET fields == split(match.group)
             months == MonthsNamed(lower(fields[1]))
         IN  IF months = {} THEN ValueError
             ELSE DateOfNumbers(ToInt(fields[3]), CHOOSE m \in months : TRUE,
                                ToInt(SubSeq(fields[2], 1, Len(fields[2]) - 1)))

\* MM/DD/YYYY at position i
NumericDateAt(s, i) ==
    IF /\ i + 9 <= Len(s)
       /\ AllDigits(SubSeq(s, i, i + 1)) /\ Char(s, i + 2) = "/"
       /\ AllDigits(SubSeq(s, i + 3, i + 4)) /\ Char(s, i + 5) = "/"
       /\ AllDigits(SubSeq(s, i + 6, i + 9))
    THEN DateOfNumbers(ToInt(SubSeq(s, i + 6, i + 9)), ToInt(SubSeq(s, i, i + 1)),
                       ToInt(SubSeq(s, i + 3, i + 4)))
    ELSE ValueError

\* YYYY-MM-DD at position i
IsoDateAt(s, i) ==
    IF /\ i + 9 <= Len(s)
       /\ AllDigits(SubSeq(s, i, i + 3)) /\ Char(s, i + 4) = "-"
       /\ AllDigits(SubSeq(s, i + 5, i + 6)) /\ Char(s, i + 7) = "-"
       /\ AllDigits(SubSeq(s, i + 8, i + 9))
    THEN DateOfNumbers(ToInt(SubSeq(s, i, i + 3)), ToInt(SubSeq(s, i + 5, i + 6)),
                       ToInt(SubSeq(s, i + 8, i + 9)))
    ELSE ValueError

\* the date a text carries: the first of the formats, in the order of
\* precedence, that yields a date
CarriedDate(s) ==
    FirstOk(<<MonthNameDate(date_patterns(1, s)),
              MonthNameDate(date_patterns(2, s)),
              MonthNameDate(date_patterns(3, s)),
              FirstOk([i \in 1..Len(s) |-> NumericDateAt(s, i)]),
              FirstOk([i \in 1..Len(s) |-> IsoDateAt(s, i)])>>)

\* a text that carries a date later than every day of the clock
CarriesFutureDate(e) ==
    /\ e.t = "str"
    /\ \A p \in NoExpirationPhrases : ~Contains(lower(e.v), p)
    /\ CarriedDate(e.v).ok
    /\ \A t \in Instants : CarriedDate(e.v).date.ord > t.ord

\* C11: the validity check extracts a date in each of the supported formats
\* (labelled month-name date, bare month-name date with a full or
\* abbreviated month, MM/DD/YYYY, YYYY-MM-DD), tried in that order: an expiry
\* text that carries a future date in any of them, the ISO dates stored by
\* get_certificates included, is found valid with that date, not expired or
\* unparseable.
C11_SupportedFormatsAreValid ==
    (Checked /\ CarriesFutureDate(last.arg)) =>
        /\ Get(last.ret, "is_valid", FALSE)
        /\ Get(last.ret, "expiry_date", 0) = CarriedDate(last.arg.v).date.ord

(***************************************************************************)
(* Properties of get_certificates and count_certificates (under Spec).     *)
(***************************************************************************)
Fetched == last.tool = "get_certificates" /\ last.ret.text = "Found certificates"

\* C12: after get_certificates calls, count_certificates reports the number
\* of loaded certificates whenever a get_certificates call has succeeded (a
\* fetch of a profile with no badges included); it answers "not loaded, fetch
\* first" only when nothing has been fetched yet.  Stated for the call of
\* count_certificates that follows a successful get_certificates.
C12_CountAfterFetch ==
    [][(Fetched /\ last'.tool = "count_certificates") =>
          /\ last'.ret.text = "You have certificates"
          /\ last'.ret.count = Len(credly_data.badges)]_vars

\* C13: in every reachable state of the badge store, after get_certificates
\* calls that succeed, fail in the HTTP fetch or fail while parsing a record
\* part-way through the response, count is the number of entries of badges,
\* and a failed call leaves the badges and the count loaded before as they
\* were.
C13_StoreConsistent ==
    [][/\ credly_data'.count = Len(credly_data'.badges)
       /\ (last'.tool = "get_certificates" /\ last'.ret.text # "Found certificates")
             => credly_data' = credly_data]_vars

====
